---- MODULE Spec2Model ----
(***************************************************************************)
(* Model of tools/init-sops.py: installation of an Age key for SOPS.       *)
(*                                                                         *)
(* Text is a sequence of characters.  The alphabet is abstract:            *)
(*   PFX     the literal "AGE-SECRET-KEY-" (one symbol)                    *)
(*   PUBPFX  the literal "age1" (one symbol)                               *)
(*   "a","b" key body characters, "x" any other printable character        *)
(*   "#"     literal comment text written by the tool or by age-keygen     *)
(*   "Y"     the literal YAML text of the .sops.yaml template              *)
(*   LF, CR, SP, FF  line feed, carriage return, space, form feed          *)
(***************************************************************************)
EXTENDS Integers, Sequences, FiniteSets, TLC

LF == "LF"
CR == "CR"
SP == "SP"
FF == "FF"
PFX == "P"
PUBPFX == "G"

\* str.strip() / str.rstrip() with no argument remove these
Whitespace == {LF, CR, SP, FF}
\* str.splitlines() breaks lines at these (CR LF counts once)
LineSeps == {LF, CR, FF}

\* value of Python's None where a str is expected
None == <<"None">>

\* file modes (octal 0600, 0644, 0700) and the mode of a directory nobody tightened
Mode600 == 384
Mode644 == 420
Mode700 == 448
DirDefaultMode == 493

\* exit codes
ExitOk == 0
ExitGenerateFailed == 1
ExitNoSecret == 2
ExitDeriveFailed == 3
ExitNoAgeKeygen == 127
NoExit == -1

(***************************************************************************)
(* Bounds                                                                  *)
(***************************************************************************)
MaxRuns == 2

(***************************************************************************)
(* str methods                                                             *)
(***************************************************************************)
RECURSIVE LStrip(_)
LStrip(s) ==
    IF s = <<>> THEN s
    ELSE IF Head(s) \in Whitespace THEN LStrip(Tail(s)) ELSE s

RECURSIVE RStrip(_)
RStrip(s) ==
    IF s = <<>> THEN s
    ELSE IF s[Len(s)] \in Whitespace THEN RStrip(SubSeq(s, 1, Len(s) - 1)) ELSE s

Strip(s) == RStrip(LStrip(s))

StartsWith(s, pre) == Len(s) >= Len(pre) /\ SubSeq(s, 1, Len(pre)) = pre

EndsWith(s, suf) ==
    Len(s) >= Len(suf) /\ SubSeq(s, Len(s) - Len(suf) + 1, Len(s)) = suf

\* needle in hay
Contains(hay, needle) ==
    \E i \in 0..(Len(hay) - Len(needle)) : SubSeq(hay, i + 1, i + Len(needle)) = needle

RECURSIVE SplitLinesAcc(_, _, _)
SplitLinesAcc(s, cur, acc) ==
    IF s = <<>> THEN (IF cur = <<>> THEN acc ELSE Append(acc, cur))
    ELSE IF Head(s) = CR /\ Len(s) >= 2 /\ s[2] = LF
         THEN SplitLinesAcc(Tail(Tail(s)), <<>>, Append(acc, cur))
    ELSE IF Head(s) \in LineSeps
         THEN SplitLinesAcc(Tail(s), <<>>, Append(acc, cur))
    ELSE SplitLinesAcc(Tail(s), Append(cur, Head(s)), acc)

\* str.splitlines()
SplitLines(s) == SplitLinesAcc(s, <<>>, <<>>)

RECURSIVE JoinLF(_)
\* "\n".join(lines)
JoinLF(lines) ==
    IF lines = <<>> THEN <<>>
    ELSE IF Len(lines) = 1 THEN Head(lines)
    ELSE Head(lines) \o <<LF>> \o JoinLF(Tail(lines))

(***************************************************************************)
(* Files                                                                   *)
(***************************************************************************)
AbsentFile == [exists |-> FALSE, data |-> <<>>, mode |-> 0]

File(data, mode) == [exists |-> TRUE, data |-> data, mode |-> mode]

RECURSIVE UniversalNewlines(_)
\* text-mode read with newline=None: CR LF and a lone CR are returned as LF
UniversalNewlines(s) ==
    IF s = <<>> THEN s
    ELSE IF Head(s) = CR /\ Len(s) >= 2 /\ s[2] = LF
         THEN <<LF>> \o UniversalNewlines(Tail(Tail(s)))
    ELSE IF Head(s) = CR THEN <<LF>> \o UniversalNewlines(Tail(s))
    ELSE <<Head(s)>> \o UniversalNewlines(Tail(s))

\* _read_text: a missing file reads as ""
ReadText(f) == IF f.exists THEN UniversalNewlines(f.data) ELSE <<>>

\* text-mode write with newline=None on POSIX: LF is written as os.linesep = LF
WriteText(s) == s

(***************************************************************************)
(* Pure functions of the tool                                              *)
(***************************************************************************)
RECURSIVE FirstKeyLine(_)
FirstKeyLine(lines) ==
    IF lines = <<>> THEN None
    ELSE LET s == Strip(Head(lines))
         IN  IF StartsWith(s, <<PFX>>) THEN s ELSE FirstKeyLine(Tail(lines))

ExtractSecretKeyLine(text) ==
    LET line == Strip(text)
    IN  IF StartsWith(line, <<PFX>>) THEN line ELSE FirstKeyLine(SplitLines(text))

\* "# created: <now>", "# public key: <pub>", the secret line, ""
ComposeBlockFromSecret(secret_key_line, public_key) ==
    JoinLF(<< <<"#">>, <<"#">> \o public_key, Strip(secret_key_line), <<>> >>)

\* a check that wants a whole line of the store to be the key
KeyAlreadyPresent_WholeLine(existing, secret_key_line) ==
    \E i \in 1..Len(SplitLines(existing)) : SplitLines(existing)[i] = secret_key_line

\* a check that never finds the key
KeyAlreadyPresent_Never(existing, secret_key_line) == FALSE

KeyAlreadyPresent(existing, secret_key_line) ==
    existing # <<>> /\ Contains(existing, secret_key_line)

\* an append that only ends the last line, without the blank line
AppendNewContent_NoBlank(existing, block) ==
    (IF existing # <<>> /\ ~EndsWith(existing, <<LF>>)
     THEN existing \o <<LF>> ELSE existing) \o block

AppendNewContent(existing, block) ==
    LET c1 == IF existing # <<>> /\ ~EndsWith(existing, <<LF>>)
              THEN existing \o <<LF>> ELSE existing
        c2 == IF c1 # <<>> /\ ~EndsWith(c1, <<LF, LF>>)
              THEN c1 \o <<LF>> ELSE c1
    IN  c2 \o block

SopsConfigContent(public_key) ==
    <<"#", LF, "#", LF, "Y">> \o public_key \o <<LF>>

\* a check that always finds a policy file
CfgExists_Always(f) == TRUE

\* a check that never finds the policy file
CfgExists_Never(f) == FALSE

CfgExists(f) == f.exists

(***************************************************************************)
(* The external utility age-keygen                                         *)
(***************************************************************************)
\* the public key that belongs to a secret key line
PubOf(secret_key_line) == <<PUBPFX>> \o Tail(secret_key_line)

\* a key file as "age-keygen -o" writes it
KeyFile(body) ==
    <<"#", LF, "#", PUBPFX>> \o body \o <<LF, PFX>> \o body \o <<LF>>

GenBodies == {<<"a">>}

\* outcomes of "age-keygen -o <path>": failure, a key file, or a file without a key
AgeKeygenO ==
    {[rc |-> 1, content |-> <<>>]}
    \cup {[rc |-> 0, content |-> KeyFile(b)] : b \in GenBodies}
    \cup {[rc |-> 0, content |-> <<"#", LF>>]}

\* outcomes of "age-keygen -y <path>" on a file with the given content
AgeKeygenY(content) ==
    LET key == ExtractSecretKeyLine(content)
    IN  {[rc |-> 1, out |-> <<>>], [rc |-> 0, out |-> <<"x", LF>>]}
        \cup (IF key = None THEN {} ELSE {[rc |-> 0, out |-> PubOf(key) \o <<LF>>]})

\* what the operator may type at the prompt (one line, without its line end)
PromptInputs ==
    { <<SP, PFX, "a">>, <<PFX, "a", "b">>, <<"x">>, <<"x", FF, SP, PFX, "a">>,
      <<PFX, "a", FF, "x">> }

(***************************************************************************)
(* State                                                                   *)
(***************************************************************************)
\* keys_file  <config-base>/sops/age/keys.txt      (exists, data, mode)
\* cfg_file   ./.sops.yaml                         (exists, data, mode)
\* temps      the temporary files and directories that exist: who made them,
\*            in which run (0: an earlier run), and for what
\* dir_mode   the modes of the directories the tool may chmod
\* proc       the run of each process: its position and its local variables
\* runs       how many runs have been started
\* keys_init  the key store before the first run (history)
VARIABLES keys_file, cfg_file, temps, dir_mode, proc, runs, keys_init

vars == <<keys_file, cfg_file, temps, dir_mode, proc, runs, keys_init>>

\* the processes of the sequential specification
Procs == {1}

Dirs == {"age", "sops", "cwd", "cwd_parent"}

\* [path.parent, path.parent.parent] of the two destinations
ParentDirs(path) == IF path = "keys" THEN {"age", "sops"} ELSE {"cwd", "cwd_parent"}

IdleRun ==
    [ pc |-> "idle", run |-> 0, generate |-> FALSE, found |-> "unknown",
      ret |-> NoExit, raised |-> FALSE, diag |-> {}, acts |-> {},
      o_rc |-> NoExit, keyfile |-> <<>>, content |-> <<>>, typed |-> <<>>, secret |-> <<>>,
      secret_line |-> None, y_rc |-> NoExit, y_out |-> <<>>, public_key |-> <<>>,
      block |-> <<>>, existing |-> <<>>, aw_path |-> "none", aw_data |-> <<>>,
      aw_mode |-> 0, keys_before |-> AbsentFile, cfg_before |-> AbsentFile ]

\* key stores the tool may find: absent, or text an operator or an earlier tool left
InitStoreData ==
    { <<"#">>, <<"#", LF>>, <<"#", LF, LF>>, <<"#", LF, LF, LF>>, <<"#", LF, SP>>,
      <<"#", CR, LF>>, <<PFX, "a", "b", LF>> }

InitKeyStores == {AbsentFile} \cup {File(d, Mode644) : d \in InitStoreData}

InitCfgFiles == {AbsentFile, File(<<"Y", "x", LF>>, Mode644)}

Init ==
    /\ keys_file \in InitKeyStores
    /\ cfg_file \in InitCfgFiles
    /\ temps = {}
    /\ dir_mode = [d \in Dirs |-> DirDefaultMode]
    /\ proc = [p \in Procs |-> IdleRun]
    /\ runs = 0
    /\ keys_init = keys_file

Temp(p, kind) == [owner |-> p, run |-> proc[p].run, kind |-> kind]

\* the step of a run: it did this and goes on at pc
Did(r, act, pc) == [r EXCEPT !.pc = pc, !.acts = @ \cup {act}]

\* the run ends by returning (or sys.exit) with this code after these diagnostics
Return(r, code, msgs) == [r EXCEPT !.pc = "done", !.ret = code, !.diag = @ \cup msgs]

\* the run ends with an exception nobody catches: main returns nothing, and the
\* interpreter prints the traceback
Raise(r) == [r EXCEPT !.pc = "done", !.raised = TRUE]

(***************************************************************************)
(* main                                                                    *)
(***************************************************************************)
\* a run starts; runs are executed one after another.  What earlier runs left in
\* temps stays there, marked as theirs (run 0).
Start(p) ==
    /\ proc[p].pc \in {"idle", "done"}
    /\ \A q \in Procs \ {p} : proc[q].pc \in {"idle", "done"}
    /\ runs < MaxRuns
    /\ runs' = runs + 1
    /\ \E g \in BOOLEAN :
         proc' = [proc EXCEPT ![p] =
                    [IdleRun EXCEPT !.pc = "require", !.run = runs + 1, !.generate = g,
                                    !.keys_before = keys_file, !.cfg_before = cfg_file]]
    /\ temps' = {[t EXCEPT !.run = 0] : t \in temps}
    /\ UNCHANGED <<keys_file, cfg_file, dir_mode, keys_init>>

\* a check that goes on without the utility
RequireResult_GoOn(r, found) ==
    [Did(r, "which", IF r.generate THEN "generate" ELSE "prompt") EXCEPT
        !.found = IF found THEN "yes" ELSE "no"]

RequireResult(r, found) ==
    IF found
    THEN [Did(r, "which", IF r.generate THEN "generate" ELSE "prompt") EXCEPT
             !.found = "yes"]
    ELSE Return([Did(r, "which", "done") EXCEPT !.found = "no"],
                ExitNoAgeKeygen, {"missing_age_keygen"})

RequireAgeKeygen(p) ==
    /\ proc[p].pc = "require"
    /\ \E found \in BOOLEAN :
         proc' = [proc EXCEPT ![p] = RequireResult(proc[p], found)]
    /\ UNCHANGED <<keys_file, cfg_file, temps, dir_mode, runs, keys_init>>

\* _generate_key_block_with_age_keygen up to "age-keygen -o" and the read of its file
GenerateRunO(p) ==
    /\ proc[p].pc = "generate"
    /\ \E o \in AgeKeygenO :
         IF o.rc # 0
         THEN /\ proc' = [proc EXCEPT ![p] =
                            Return([Did(proc[p], "keygen_o", "done") EXCEPT
                                       !.o_rc = o.rc],
                                   ExitGenerateFailed, {"error"})]
              /\ temps' = temps
         ELSE /\ proc' = [proc EXCEPT ![p] =
                            [Did(proc[p], "keygen_o", "generate_y") EXCEPT
                                !.o_rc = o.rc, !.keyfile = o.content,
                                !.content = UniversalNewlines(o.content)]]
              /\ temps' = temps \cup {Temp(p, "gendir")}
    /\ UNCHANGED <<keys_file, cfg_file, dir_mode, runs, keys_init>>

\* the generated block, and main's check of it
GenerateResult(r, y) ==
    LET block == RStrip(r.content) \o <<LF>>
        secret_line == ExtractSecretKeyLine(block)
        r1 == [Did(r, "keygen_y", "done") EXCEPT !.y_rc = y.rc, !.y_out = y.out]
    IN  IF y.rc # 0 THEN Return(r1, ExitGenerateFailed, {"error"})
        ELSE LET r2 == [r1 EXCEPT !.public_key = Strip(y.out), !.block = block,
                                   !.secret_line = secret_line]
             IN  IF secret_line = None
                 THEN Return(r2, ExitGenerateFailed, {"no_parse"})
                 ELSE [r2 EXCEPT !.pc = "append"]

\* "age-keygen -y", the end of _generate_key_block_with_age_keygen, main lines 205-212
GenerateRunY(p) ==
    /\ proc[p].pc = "generate_y"
    /\ \E y \in AgeKeygenY(proc[p].keyfile) :
         proc' = [proc EXCEPT ![p] = GenerateResult(proc[p], y)]
    /\ temps' = temps \ {Temp(p, "gendir")}
    /\ UNCHANGED <<keys_file, cfg_file, dir_mode, runs, keys_init>>

\* the prompt (getpass, or input with a warning) and _extract_secret_key_line
PromptResult(r, text, echo_off) ==
    LET secret == Strip(text)
        secret_line == ExtractSecretKeyLine(secret)
        r1 == [Did(r, "prompt", "done") EXCEPT
                  !.typed = text, !.secret = secret, !.secret_line = secret_line,
                  !.diag = @ \cup (IF echo_off THEN {} ELSE {"echo_warning"})]
    IN  IF secret_line = None
        THEN Return(r1, ExitNoSecret, {"no_secret"})
        ELSE [r1 EXCEPT !.pc = "derive"]

PromptSecret(p) ==
    /\ proc[p].pc = "prompt"
    /\ \E text \in PromptInputs, echo_off \in BOOLEAN :
         proc' = [proc EXCEPT ![p] = PromptResult(proc[p], text, echo_off)]
    /\ UNCHANGED <<keys_file, cfg_file, temps, dir_mode, runs, keys_init>>

\* _derive_public_key_from_secret: the temporary file is created and written
DeriveWriteTmp(p) ==
    /\ proc[p].pc = "derive"
    /\ temps' = temps \cup {Temp(p, "derive")}
    /\ \E ok \in BOOLEAN :
         proc' = [proc EXCEPT ![p] =
                    IF ok THEN Did(proc[p], "derive_tmp", "derive_run")
                    ELSE Raise(Did(proc[p], "derive_tmp", "done"))]
    /\ UNCHANGED <<keys_file, cfg_file, dir_mode, runs, keys_init>>

\* a derivation failure reported with the exit code of the generate path
DeriveResult_Exit1(r, y) ==
    LET pub == Strip(y.out)
        r1 == [Did(r, "keygen_y", "done") EXCEPT !.y_rc = y.rc, !.y_out = y.out]
    IN  IF y.rc # 0 \/ ~StartsWith(pub, <<PUBPFX>>)
        THEN Return(r1, ExitGenerateFailed, {"error"})
        ELSE [r1 EXCEPT !.pc = "append", !.public_key = pub,
                        !.block = ComposeBlockFromSecret(r.secret_line, pub)]

\* the derived key or the RuntimeError, and main lines 240-246
DeriveResult(r, y) ==
    LET pub == Strip(y.out)
        r1 == [Did(r, "keygen_y", "done") EXCEPT !.y_rc = y.rc, !.y_out = y.out]
    IN  IF y.rc # 0 \/ ~StartsWith(pub, <<PUBPFX>>)
        THEN Return(r1, ExitDeriveFailed, {"error"})
        ELSE [r1 EXCEPT !.pc = "append", !.public_key = pub,
                        !.block = ComposeBlockFromSecret(r.secret_line, pub)]

\* _derive_public_key_from_secret: "age-keygen -y" and the finally clause
DeriveRunY(p) ==
    /\ proc[p].pc = "derive_run"
    /\ \E y \in AgeKeygenY(Strip(proc[p].secret_line) \o <<LF>>) :
         proc' = [proc EXCEPT ![p] = DeriveResult(proc[p], y)]
    /\ temps' = temps \ {Temp(p, "derive")}
    /\ UNCHANGED <<keys_file, cfg_file, dir_mode, runs, keys_init>>

(***************************************************************************)
(* _append_key_block, _ensure_sops_config, _atomic_write                   *)
(***************************************************************************)
\* _atomic_write(path, data, mode) is entered
AtomicWriteCall(r, path, data, mode) ==
    [r EXCEPT !.pc = "aw_dirs", !.aw_path = path, !.aw_data = data, !.aw_mode = mode]

\* the store is read; the key is found in it, or the new content goes to _atomic_write
AppendResult(r, existing) ==
    LET r1 == [Did(r, "read_keys", "done") EXCEPT !.existing = existing]
    IN  IF KeyAlreadyPresent(existing, r.secret_line)
        THEN [r1 EXCEPT !.pc = "ensure", !.diag = @ \cup {"no_changes"}]
        ELSE AtomicWriteCall(r1, "keys", AppendNewContent(existing, r.block), Mode600)

AppendKeyBlock(p) ==
    /\ proc[p].pc = "append"
    /\ proc' = [proc EXCEPT ![p] = AppendResult(proc[p], ReadText(keys_file))]
    /\ UNCHANGED <<keys_file, cfg_file, temps, dir_mode, runs, keys_init>>

\* the policy file is there and stays, or the template goes to _atomic_write
EnsureResult(r, cfg) ==
    IF CfgExists(cfg)
    THEN Return(Did(r, "exists_cfg", "done"), ExitOk, {})
    ELSE AtomicWriteCall(Did(r, "exists_cfg", "done"), "cfg",
                         SopsConfigContent(r.public_key), Mode644)

\* main after _append_key_block: _ensure_sops_config
EnsureSopsConfig(p) ==
    /\ proc[p].pc = "ensure"
    /\ proc' = [proc EXCEPT ![p] = EnsureResult(proc[p], cfg_file)]
    /\ UNCHANGED <<keys_file, cfg_file, temps, dir_mode, runs, keys_init>>

\* mkdir(parents=True) and the best-effort chmod 0700 of the two directories above path
AtomicWriteDirs(p) ==
    /\ proc[p].pc = "aw_dirs"
    /\ \E denied \in SUBSET ParentDirs(proc[p].aw_path) :
         dir_mode' = [d \in Dirs |->
                        IF d \in ParentDirs(proc[p].aw_path) \ denied
                        THEN Mode700 ELSE dir_mode[d]]
    /\ proc' = [proc EXCEPT ![p] = Did(proc[p], "chmod_dirs", "aw_tmp")]
    /\ UNCHANGED <<keys_file, cfg_file, temps, runs, keys_init>>

\* a write that opens the destination itself and writes the data into it
AtomicWriteTmp_InPlace(p) ==
    /\ proc[p].pc = "aw_tmp"
    /\ IF proc[p].aw_path = "keys"
       THEN /\ keys_file' = File(WriteText(proc[p].aw_data), Mode600)
            /\ cfg_file' = cfg_file
       ELSE /\ cfg_file' = File(WriteText(proc[p].aw_data), Mode600)
            /\ keys_file' = keys_file
    /\ proc' = [proc EXCEPT ![p] = Did(proc[p], "aw_tmp", "aw_replace")]
    /\ UNCHANGED <<temps, dir_mode, runs, keys_init>>

\* NamedTemporaryFile(delete=False) in the directory of path; write, flush, fsync
AtomicWriteTmp(p) ==
    /\ proc[p].pc = "aw_tmp"
    /\ temps' = temps \cup {Temp(p, proc[p].aw_path)}
    /\ \E ok \in BOOLEAN :
         proc' = [proc EXCEPT ![p] =
                    IF ok THEN Did(proc[p], "aw_tmp", "aw_replace")
                    ELSE Raise(Did(proc[p], "aw_tmp", "done"))]
    /\ UNCHANGED <<keys_file, cfg_file, dir_mode, runs, keys_init>>

\* a writer that adds its block to the key store as the store is at that moment
AtomicWriteReplace_Append(p) ==
    /\ proc[p].pc = "aw_replace"
    /\ temps' = temps \ {Temp(p, proc[p].aw_path)}
    /\ IF proc[p].aw_path = "keys"
       THEN /\ keys_file' = File(ReadText(keys_file) \o proc[p].block, Mode600)
            /\ cfg_file' = cfg_file
       ELSE /\ cfg_file' = File(WriteText(proc[p].aw_data), Mode600)
            /\ keys_file' = keys_file
    /\ proc' = [proc EXCEPT ![p] =
                  Did(proc[p], IF proc[p].aw_path = "keys"
                               THEN "write_keys" ELSE "write_cfg", "aw_chmod")]
    /\ UNCHANGED <<dir_mode, runs, keys_init>>

\* os.replace(tmp_name, path): the temporary file, created with mode 0600, becomes path
AtomicWriteReplace(p) ==
    /\ proc[p].pc = "aw_replace"
    /\ \E ok \in BOOLEAN :
         IF ok
         THEN /\ temps' = temps \ {Temp(p, proc[p].aw_path)}
              /\ IF proc[p].aw_path = "keys"
                 THEN /\ keys_file' = File(WriteText(proc[p].aw_data), Mode600)
                      /\ cfg_file' = cfg_file
                 ELSE /\ cfg_file' = File(WriteText(proc[p].aw_data), Mode600)
                      /\ keys_file' = keys_file
              /\ proc' = [proc EXCEPT ![p] =
                            Did(proc[p], IF proc[p].aw_path = "keys"
                                         THEN "write_keys" ELSE "write_cfg", "aw_chmod")]
         ELSE /\ proc' = [proc EXCEPT ![p] = Raise(proc[p])]
              /\ UNCHANGED <<keys_file, cfg_file, temps>>
    /\ UNCHANGED <<dir_mode, runs, keys_init>>

\* a chmod of path whose denial is not caught
AtomicWriteChmod_Fatal(p) ==
    /\ proc[p].pc = "aw_chmod"
    /\ \E denied \in BOOLEAN :
         IF denied
         THEN /\ proc' = [proc EXCEPT ![p] = Raise(Did(proc[p], "chmod_file", "done"))]
              /\ UNCHANGED <<keys_file, cfg_file>>
         ELSE IF proc[p].aw_path = "keys"
         THEN /\ keys_file' = [keys_file EXCEPT !.mode = proc[p].aw_mode]
              /\ cfg_file' = cfg_file
              /\ proc' = [proc EXCEPT ![p] = Did(proc[p], "chmod_file", "ensure")]
         ELSE /\ cfg_file' = [cfg_file EXCEPT !.mode = proc[p].aw_mode]
              /\ keys_file' = keys_file
              /\ proc' = [proc EXCEPT ![p] =
                            Return(Did(proc[p], "chmod_file", "done"), ExitOk, {})]
    /\ UNCHANGED <<temps, dir_mode, runs, keys_init>>

\* the best-effort chmod of path, and the return to the caller
AtomicWriteChmod(p) ==
    /\ proc[p].pc = "aw_chmod"
    /\ \E denied \in BOOLEAN :
         IF proc[p].aw_path = "keys"
         THEN /\ keys_file' = IF denied THEN keys_file
                              ELSE [keys_file EXCEPT !.mode = proc[p].aw_mode]
              /\ cfg_file' = cfg_file
              /\ proc' = [proc EXCEPT ![p] = Did(proc[p], "chmod_file", "ensure")]
         ELSE /\ cfg_file' = IF denied THEN cfg_file
                             ELSE [cfg_file EXCEPT !.mode = proc[p].aw_mode]
              /\ keys_file' = keys_file
              /\ proc' = [proc EXCEPT ![p] =
                            Return(Did(proc[p], "chmod_file", "done"), ExitOk, {})]
    /\ UNCHANGED <<temps, dir_mode, runs, keys_init>>

Next ==
    \E p \in Procs :
        \/ Start(p)
        \/ RequireAgeKeygen(p)
        \/ GenerateRunO(p)
        \/ GenerateRunY(p)
        \/ PromptSecret(p)
        \/ DeriveWriteTmp(p)
        \/ DeriveRunY(p)
        \/ AppendKeyBlock(p)
        \/ EnsureSopsConfig(p)
        \/ AtomicWriteDirs(p)
        \/ AtomicWriteTmp(p)
        \/ AtomicWriteReplace(p)
        \/ AtomicWriteChmod(p)

Spec == Init /\ [][Next]_vars

(***************************************************************************)
(* Two processes that run the tool at the same time, once each             *)
(***************************************************************************)
ConcurrentProcs == {1, 2}

ConcurrentKeyStores == {AbsentFile, File(<<"#", LF>>, Mode644)}

\* the policy file is there: the two runs meet at the key store only
ConcurrentCfgFile == File(<<"Y", "x", LF>>, Mode644)

InitConcurrent ==
    /\ keys_file \in ConcurrentKeyStores
    /\ cfg_file = ConcurrentCfgFile
    /\ temps = {}
    /\ dir_mode = [d \in Dirs |-> DirDefaultMode]
    /\ proc = [p \in ConcurrentProcs |-> IdleRun]
    /\ runs = 0
    /\ keys_init = keys_file

\* a process starts its run, whatever the other one is doing
StartConcurrent(p) ==
    /\ proc[p].pc = "idle"
    /\ runs' = runs + 1
    /\ \E g \in BOOLEAN :
         proc' = [proc EXCEPT ![p] =
                    [IdleRun EXCEPT !.pc = "require", !.run = runs + 1, !.generate = g,
                                    !.keys_before = keys_file, !.cfg_before = cfg_file]]
    /\ UNCHANGED <<keys_file, cfg_file, temps, dir_mode, keys_init>>

NextConcurrent ==
    \E p \in ConcurrentProcs :
        \/ StartConcurrent(p)
        \/ RequireAgeKeygen(p)
        \/ GenerateRunO(p)
        \/ GenerateRunY(p)
        \/ PromptSecret(p)
        \/ DeriveWriteTmp(p)
        \/ DeriveRunY(p)
        \/ AppendKeyBlock(p)
        \/ EnsureSopsConfig(p)
        \/ AtomicWriteDirs(p)
        \/ AtomicWriteTmp(p)
        \/ AtomicWriteReplace(p)
        \/ AtomicWriteChmod(p)

SpecConcurrent == InitConcurrent /\ [][NextConcurrent]_vars

(***************************************************************************)
(* Properties                                                              *)
(***************************************************************************)
\* the run reached _append_key_block and read the store
ReachedAppend(r) == "read_keys" \in r.acts

\* the run took the "No changes made" branch
SkippedWrite(r) == "no_changes" \in r.diag

\* the run replaced the key store / the policy file
WroteKeys(r) == "write_keys" \in r.acts
WroteCfg(r) == "write_cfg" \in r.acts

\* C1: a run whose secret key line is already in the key store writes nothing to
\* the store, leaves it as it was and prints "No changes made"; and the store of a
\* run that ended with 0 holds the run's key line, so that a second run with the
\* same key finds it and changes nothing.
C1_Idempotent ==
    \A p \in Procs :
        LET r == proc[p]
        IN  /\ (ReachedAppend(r) /\ Contains(ReadText(r.keys_before), r.secret_line))
                  => /\ keys_file = r.keys_before
                     /\ SkippedWrite(r)
                     /\ ~WroteKeys(r)
            /\ (r.pc = "done" /\ r.ret = ExitOk)
                  => Contains(ReadText(keys_file), r.secret_line)

\* the second of two runs finds the key that the first one installed
C1_Witness ==
    \E p \in Procs :
        LET r == proc[p]
        IN  /\ r.run = 2 /\ r.pc = "done" /\ r.ret = ExitOk
            /\ SkippedWrite(r)
            /\ r.keys_before # keys_init
            /\ keys_file = r.keys_before

\* C2: a policy file that exists when a run starts is never changed by the run
C2_PolicyFileUntouched ==
    \A p \in Procs :
        proc[p].cfg_before.exists => cfg_file = proc[p].cfg_before

\* a run that installed a key and ended with 0 beside an existing policy file
C2_Witness ==
    \E p \in Procs :
        /\ proc[p].cfg_before.exists
        /\ proc[p].pc = "done" /\ proc[p].ret = ExitOk
        /\ WroteKeys(proc[p])
        /\ "exists_cfg" \in proc[p].acts

\* C8: without age-keygen on PATH the run ends with 127 and its diagnostic, having
\* done nothing but the lookup: no utility call, no prompt, no temporary file, and
\* neither file read or written
C8_MissingDependencyFirst ==
    \A p \in Procs :
        LET r == proc[p]
        IN  /\ r.found = "no"
                  => /\ r.pc = "done" /\ r.ret = ExitNoAgeKeygen /\ ~r.raised
                     /\ r.acts = {"which"}
                     /\ r.diag = {"missing_age_keygen"}
                     /\ keys_file = r.keys_before /\ cfg_file = r.cfg_before
                     /\ \A t \in temps : ~(t.owner = p /\ t.run = r.run)
            /\ r.ret = ExitNoAgeKeygen => r.found = "no"

\* a --generate run that ended with 127
C8_Witness ==
    \E p \in Procs :
        proc[p].generate /\ proc[p].found = "no" /\ proc[p].ret = ExitNoAgeKeygen

\* some line of the text, surrounding blanks aside, begins with AGE-SECRET-KEY-
HasKeyLine(text) ==
    \E i \in 1..Len(SplitLines(text)) : StartsWith(Strip(SplitLines(text)[i]), <<PFX>>)

\* "age-keygen -y" ran and exited non-zero or printed no age1 key
DerivationFailed(r) ==
    "keygen_y" \in r.acts /\ (r.y_rc # 0 \/ ~StartsWith(r.y_out, <<PUBPFX>>))

FailureExits == {ExitGenerateFailed, ExitNoSecret, ExitDeriveFailed, ExitNoAgeKeygen}

\* C3: a run that ends with a failure exit code has created or changed neither
\* file, and a file is written only after the secret key line and the public key
\* have both been validated (AGE-SECRET-KEY- and age1 prefixes)
C3_NoWriteOnFailure ==
    \A p \in Procs :
        LET r == proc[p]
        IN  /\ r.ret \in FailureExits
                  => (keys_file = r.keys_before /\ cfg_file = r.cfg_before)
            /\ (WroteKeys(r) \/ WroteCfg(r))
                  => /\ StartsWith(r.secret_line, <<PFX>>)
                     /\ StartsWith(r.public_key, <<PUBPFX>>)

\* C4: a --generate run ends with exit code 1, nothing installed, whenever the
\* utility exits non-zero in either call and whenever the derived public key does
\* not begin with age1
C4_GenerateFailures ==
    \A p \in Procs :
        LET r == proc[p]
        IN  (r.generate /\ ( r.o_rc \notin {NoExit, 0}
                             \/ r.y_rc \notin {NoExit, 0}
                             \/ (r.y_rc = 0 /\ ~StartsWith(r.public_key, <<PUBPFX>>)) ))
              => /\ r.pc = "done" /\ r.ret = ExitGenerateFailed
                 /\ keys_file = r.keys_before /\ cfg_file = r.cfg_before

\* C6: the key store is append-only: what it held when a run started is a prefix
\* of what it holds during and after the run
C6_AppendOnly ==
    \A p \in Procs : StartsWith(keys_file.data, proc[p].keys_before.data)

\* C10: a temporary file or directory exists only inside the operation that made
\* it: none is left when the operation has returned or raised
C10_TempsRemoved ==
    \A t \in temps :
        /\ t.run = proc[t.owner].run
        /\ t.kind = "gendir" => proc[t.owner].pc = "generate_y"
        /\ t.kind = "derive" => proc[t.owner].pc = "derive_run"
        /\ t.kind \in {"keys", "cfg"} => proc[t.owner].pc = "aw_replace"

RECURSIVE SplitAtLF(_, _, _)
\* the pieces of s between its line feeds, the piece after the last one included
SplitAtLF(s, cur, acc) ==
    IF s = <<>> THEN Append(acc, cur)
    ELSE IF Head(s) = LF THEN SplitAtLF(Tail(s), <<>>, Append(acc, cur))
    ELSE SplitAtLF(Tail(s), Append(cur, Head(s)), acc)

\* a line that is empty or holds only blanks
Blank(line) == \A i \in 1..Len(line) : line[i] \in Whitespace

RECURSIVE TrailingBlanks(_)
\* how many blank pieces end the list
TrailingBlanks(pieces) ==
    IF pieces = <<>> THEN 0
    ELSE IF Blank(pieces[Len(pieces)])
         THEN 1 + TrailingBlanks(SubSeq(pieces, 1, Len(pieces) - 1))
         ELSE 0

\* data ends with block, and between the last non-blank line before it and the
\* block lies exactly one blank line
OneBlankLineBefore(data, block) ==
    /\ EndsWith(data, block)
    /\ LET pre == SubSeq(data, 1, Len(data) - Len(block))
           pieces == SplitAtLF(pre, <<>>, <<>>)
       IN  /\ EndsWith(pre, <<LF>>)
           /\ TrailingBlanks(pieces) = 2
           /\ Len(pieces) > 2

RECURSIVE DropTrailingLF(_)
DropTrailingLF(s) ==
    IF s # <<>> /\ s[Len(s)] = LF THEN DropTrailingLF(SubSeq(s, 1, Len(s) - 1)) ELSE s

\* the text ends with a non-blank line followed by at most two line feeds
TidyEnd(text) ==
    LET core == DropTrailingLF(text)
        pieces == SplitAtLF(core, <<>>, <<>>)
    IN  /\ core # <<>>
        /\ Len(text) - Len(core) <= 2
        /\ ~Blank(pieces[Len(pieces)])

\* the run appended its block to a store that held text
AppendedToText(r) == WroteKeys(r) /\ r.existing # <<>>

\* C5 as claimed: whatever the end of the existing text looks like, exactly one
\* blank line separates it from the appended block
C5_OneBlankLineAlways ==
    \A p \in Procs :
        AppendedToText(proc[p]) => OneBlankLineBefore(keys_file.data, proc[p].block)

\* C5 as amended: exactly one blank line separates the appended block from the
\* text before it when that text ends with a non-blank line and at most two line
\* feeds, and always when the store began empty and only the tool wrote to it
C5_OneBlankLine ==
    \A p \in Procs :
        (AppendedToText(proc[p]) /\ (TidyEnd(proc[p].existing) \/ ~keys_init.exists))
            => OneBlankLineBefore(keys_file.data, proc[p].block)

\* a second block was appended to a store that began empty
C5_Witness ==
    \E p \in Procs :
        /\ AppendedToText(proc[p]) /\ ~keys_init.exists
        /\ OneBlankLineBefore(keys_file.data, proc[p].block)

\* some whole line of the text is the key line
HasWholeLine(text, secret_key_line) ==
    \E i \in 1..Len(SplitLines(text)) : SplitLines(text)[i] = secret_key_line

\* C7 as claimed: the write is skipped exactly when a whole line of the store is
\* the new secret key line
C7_SkipIffWholeLine ==
    \A p \in Procs :
        ReachedAppend(proc[p])
            => (SkippedWrite(proc[p])
                  <=> HasWholeLine(proc[p].existing, proc[p].secret_line))

\* C7 as amended: the write is skipped exactly when the text of the store contains
\* the new secret key line as a substring; then nothing is written, and otherwise
\* the store is rewritten as the text read from it followed by the block
C7_SkipIffSubstring ==
    \A p \in Procs :
        LET r == proc[p]
        IN  ReachedAppend(r)
              => /\ SkippedWrite(r) <=> Contains(r.existing, r.secret_line)
                 /\ SkippedWrite(r) => (~WroteKeys(r) /\ keys_file = r.keys_before)
                 /\ (~SkippedWrite(r) /\ WroteKeys(r))
                       => /\ StartsWith(keys_file.data, r.existing)
                          /\ EndsWith(keys_file.data, r.block)

\* the write was skipped for a key that is no whole line of the store
C7_Witness ==
    \E p \in Procs :
        /\ SkippedWrite(proc[p])
        /\ ~HasWholeLine(proc[p].existing, proc[p].secret_line)

\* a single line that begins with AGE-SECRET-KEY-
SingleKeyLine(line) ==
    /\ StartsWith(line, <<PFX>>)
    /\ \A i \in 1..Len(line) : line[i] \notin LineSeps

\* C11: whenever a run reaches _append_key_block, its secret key line is a single
\* line beginning with AGE-SECRET-KEY-, and its public key begins with age1 and is
\* the one that belongs to that secret key
C11_ResolverContract ==
    \A p \in DOMAIN proc :
        LET r == proc[p]
        IN  ReachedAppend(r)
              => /\ SingleKeyLine(r.secret_line)
                 /\ StartsWith(r.public_key, <<PUBPFX>>)
                 /\ r.public_key = PubOf(r.secret_line)

\* the text a run means to put into the key store, and into the policy file
NewKeysData(r) == AppendNewContent(r.existing, r.block)
NewCfgData(r) == SopsConfigContent(r.public_key)

\* C12: _atomic_write goes from the written and synced temporary file to the
\* rename and then to the chmod; until the rename the destination is what it was
\* when the run started, from the rename on it holds the complete new text, also
\* when a step fails in between; and a key store this run has written has mode 0600
C12_AtomicWrite ==
    \A p \in DOMAIN proc :
        LET r == proc[p]
        IN  r.pc # "idle"
              => /\ IF WroteKeys(r)
                    THEN keys_file.data = NewKeysData(r) /\ keys_file.mode = Mode600
                    ELSE keys_file = r.keys_before
                 /\ IF WroteCfg(r)
                    THEN cfg_file.data = NewCfgData(r)
                    ELSE cfg_file = r.cfg_before
                 /\ r.pc \in {"aw_dirs", "aw_tmp", "aw_replace"}
                       => (IF r.aw_path = "keys" THEN ~WroteKeys(r) ELSE ~WroteCfg(r))
                 /\ r.pc = "aw_replace" => Temp(p, r.aw_path) \in temps
                 /\ r.pc = "aw_chmod"
                       => (IF r.aw_path = "keys" THEN WroteKeys(r) ELSE WroteCfg(r))

\* the rename of the new key store failed: the store that was there is still whole
C12_Witness ==
    \E p \in DOMAIN proc :
        LET r == proc[p]
        IN  /\ r.raised /\ r.aw_path = "keys" /\ "aw_tmp" \in r.acts
            /\ Temp(p, "keys") \in temps
            /\ r.keys_before.exists /\ keys_file = r.keys_before

\* the run ended with 0 and had to create the policy file
CreatedCfg(r) == r.pc = "done" /\ r.ret = ExitOk /\ ~r.cfg_before.exists

\* C14 as claimed: after a run that ended with 0 the policy file exists; if it was
\* absent before, it was written after the key-store step and is the template with
\* the run's public key, with mode 0644
C14_PolicyFile0644 ==
    \A p \in DOMAIN proc :
        LET r == proc[p]
        IN  /\ (r.pc = "done" /\ r.ret = ExitOk) => cfg_file.exists
            /\ CreatedCfg(r)
                  => /\ WroteCfg(r) /\ (WroteKeys(r) \/ SkippedWrite(r))
                     /\ cfg_file = File(NewCfgData(r), Mode644)

\* C14 as amended: the same, but the mode is 0644 only if the chmod was allowed;
\* if it was denied the file keeps 0600, the mode of the temporary file
C14_PolicyFile ==
    \A p \in DOMAIN proc :
        LET r == proc[p]
        IN  /\ (r.pc = "done" /\ r.ret = ExitOk) => cfg_file.exists
            /\ CreatedCfg(r)
                  => /\ WroteCfg(r) /\ (WroteKeys(r) \/ SkippedWrite(r))
                     /\ cfg_file.exists /\ cfg_file.data = NewCfgData(r)
                     /\ cfg_file.mode \in {Mode644, Mode600}

\* the key was already in the store, and the policy file was created with mode 0644
C14_Witness ==
    \E p \in DOMAIN proc :
        /\ CreatedCfg(proc[p]) /\ SkippedWrite(proc[p])
        /\ cfg_file = File(NewCfgData(proc[p]), Mode644)

\* C15: a denied chmod, of the directories or of the written file, ends no run: an
\* exception is raised only before the rename, and a run that has renamed the
\* policy file into place ends with 0 and the file holds the full text, whatever
\* modes the file and the directories were left with
C15_ChmodBestEffort ==
    \A p \in DOMAIN proc :
        LET r == proc[p]
        IN  /\ r.raised
                  => (IF r.aw_path = "keys" THEN ~WroteKeys(r) ELSE ~WroteCfg(r))
            /\ WroteKeys(r) => keys_file.data = NewKeysData(r)
            /\ (WroteCfg(r) /\ r.pc = "done")
                  => (r.ret = ExitOk /\ cfg_file.data = NewCfgData(r))

\* every chmod that can be seen to have been denied was denied, and the run ended
\* with 0 having written both files
C15_Witness ==
    \E p \in DOMAIN proc :
        LET r == proc[p]
        IN  /\ r.pc = "done" /\ r.ret = ExitOk /\ WroteKeys(r) /\ WroteCfg(r)
            /\ \A d \in Dirs : dir_mode[d] = DirDefaultMode
            /\ cfg_file.mode = Mode600

\* C17: no run changes the mode of the working directory or of its parent
C17_DirChmodConfined ==
    dir_mode["cwd"] = DirDefaultMode /\ dir_mode["cwd_parent"] = DirDefaultMode

\* both runs are over and both ended with 0
BothExitedOk(p, q) ==
    /\ p # q
    /\ proc[p].pc = "done" /\ proc[p].ret = ExitOk
    /\ proc[q].pc = "done" /\ proc[q].ret = ExitOk

\* C13: when two concurrent runs with different secret keys have both ended with
\* 0, the key store begins with what it held before, holds both key lines, and
\* holds the block of every run that wrote one
C13_NoLostBlock ==
    \A p, q \in DOMAIN proc :
        (BothExitedOk(p, q) /\ proc[p].secret_line # proc[q].secret_line)
            => /\ StartsWith(keys_file.data, ReadText(keys_init))
               /\ \A o \in {p, q} :
                     /\ Contains(keys_file.data, proc[o].secret_line)
                     /\ WroteKeys(proc[o]) => Contains(keys_file.data, proc[o].block)

\* how often needle occurs in hay
Occurrences(hay, needle) ==
    Cardinality({i \in 0..(Len(hay) - Len(needle)) :
                    SubSeq(hay, i + 1, i + Len(needle)) = needle})

\* two runs install the same secret key, which the store did not hold
SameKeyRace(p, q) ==
    /\ p # q
    /\ proc[p].secret_line # None
    /\ proc[p].secret_line = proc[q].secret_line
    /\ ~Contains(ReadText(keys_init), proc[p].secret_line)

\* C16: when two concurrent runs install the same secret key into a store that
\* did not hold it, the store never holds the key line more than once, and holds
\* it exactly once when both runs have ended with 0
C16_NoDuplicateFromRace ==
    \A p, q \in DOMAIN proc :
        SameKeyRace(p, q)
            => /\ Occurrences(keys_file.data, proc[p].secret_line) <= 1
               /\ BothExitedOk(p, q)
                     => Occurrences(keys_file.data, proc[p].secret_line) = 1

\* both runs passed the duplicate check before either wrote, both wrote, both
\* ended with 0
C16_Witness ==
    \E p, q \in DOMAIN proc :
        /\ SameKeyRace(p, q) /\ BothExitedOk(p, q)
        /\ WroteKeys(proc[p]) /\ WroteKeys(proc[q])
        /\ proc[p].existing = ReadText(keys_init)
        /\ proc[q].existing = ReadText(keys_init)
        /\ Occurrences(keys_file.data, proc[p].secret_line) = 1

====
